---- MODULE Spec2Model ----
(***************************************************************************)
(* Model of torchrec/datasets/scripts/nvt/split_binary_dataset.py:         *)
(* get_categorical_feature_type, split_binary_file and split_dataset.      *)
(*                                                                         *)
(* Files are byte sequences (each byte in 0..255).  Python integers that   *)
(* may exceed 32 bits (the cardinality bounds) are pairs <<hi, lo>> with   *)
(* value hi * 65536 + lo and 0 <= lo < 65536.                               *)
(***************************************************************************)
EXTENDS Integers, Sequences, FiniteSets, TLC

(***************************************************************************)
(* Bounds of the model.                                                    *)
(***************************************************************************)
\* records (of 32-bit slots) in an input file given to split_binary_file
MaxRecords == 3
\* largest batch_size
MaxBatch == 2
\* records in an input file of a split_dataset run
MaxDatasetRecords == 1
\* len(DEFAULT_INT_NAMES): the table is configuration imported at line 18
NumIntNames == 2

(***************************************************************************)
(* Python integers of any size: <<hi, lo>> = hi * 65536 + lo.              *)
(***************************************************************************)
Big(hi, lo) == <<hi, lo>>

\* Python's a < b on integers
Less(a, b) == \/ a[1] < b[1]
              \/ a[1] = b[1] /\ a[2] < b[2]

(***************************************************************************)
(* numpy integer types: np.iinfo(t).max and itemsize.                      *)
(***************************************************************************)
INT8_MAX == 127
INT16_MAX == 32767
INT32_HI == 32767
INT32_LO == 65535

iinfo_max(t) == CASE t = "int8"  -> Big(0, INT8_MAX)
                  [] t = "int16" -> Big(0, INT16_MAX)
                  [] t = "int32" -> Big(INT32_HI, INT32_LO)

itemsize(t) == CASE t = "int8"  -> 1
                 [] t = "int16" -> 2
                 [] t = "int32" -> 4
                 [] t = "int64" -> 8

\* a mutant of types: the 16-bit type is missing from the tuple
types_without_int16 == <<"int8", "int32">>

\* line 26
types == <<"int8", "int16", "int32">>

RECURSIVE for_numpy_type_lt(_, _)
for_numpy_type_lt(sz, k) ==
    IF k > Len(types) THEN "RuntimeError"
    ELSE IF Less(sz, iinfo_max(types[k])) THEN types[k]
    ELSE for_numpy_type_lt(sz, k + 1)

RECURSIVE for_numpy_type_le(_, _)
for_numpy_type_le(sz, k) ==
    IF k > Len(types) THEN "RuntimeError"
    ELSE IF ~Less(iinfo_max(types[k]), sz) THEN types[k]
    ELSE for_numpy_type_le(sz, k + 1)

\* a mutant of get_categorical_feature_type: size <= max instead of size < max
get_categorical_feature_type_le(sz) == for_numpy_type_le(sz, 1)

\* lines 23-34: the first type of `types` with size < iinfo(type).max, or the
\* RuntimeError of lines 32-34
get_categorical_feature_type(sz) == for_numpy_type_lt(sz, 1)

(***************************************************************************)
(* Bytes and 32-bit values.                                                *)
(***************************************************************************)
\* v + 2^31 for a negative 32-bit v (2^31 itself is not written down)
Low31(v) == IF v < 0 THEN (v + 2147483647) + 1 ELSE v

\* ndarray.tobytes() of one int32 element, little-endian two's complement
int32_tobytes(v) ==
    LET m == Low31(v)
    IN  << m % 256, (m \div 256) % 256, (m \div 65536) % 256,
           (m \div 16777216) + (IF v < 0 THEN 128 ELSE 0) >>

\* one element of np.frombuffer(buf, dtype=np.int32): the 4 bytes from
\* offset `at` (0-based), little-endian two's complement
int32_frombytes(buf, at) ==
    LET b0 == buf[at + 1]
        b1 == buf[at + 2]
        b2 == buf[at + 3]
        b3 == buf[at + 4]
        m  == b0 + 256 * b1 + 65536 * b2 + 16777216 * (b3 % 128)
    IN  IF b3 >= 128 THEN (m - 2147483647) - 1 ELSE m

\* astype(t) of an int32 element for the categorical types: C-style
\* narrowing keeps the low bits
astype_int(v, t) ==
    CASE t = "int8"  -> LET u == v % 256 IN IF u >= 128 THEN u - 256 ELSE u
      [] t = "int16" -> LET u == v % 65536 IN IF u >= 32768 THEN u - 65536 ELSE u
      [] t = "int32" -> v

\* tobytes() of one element of integer type t
int_tobytes(v, t) ==
    CASE t = "int8"  -> << v % 256 >>
      [] t = "int16" -> << v % 256, (v \div 256) % 256 >>
      [] t = "int32" -> int32_tobytes(v)

\* astype(np.bool).tobytes() of one element (np.bool being the alias of
\* Python's bool): one byte, 1 when nonzero
bool_tobytes(v) == << IF v # 0 THEN 1 ELSE 0 >>

\* view(float32).astype(float16) of one 32-bit slot, as the 16 bits of the
\* half (round to nearest even, overflow to infinity, NaN kept a NaN)
float16_bits(v) ==
    LET sgn == IF v < 0 THEN 32768 ELSE 0
        m   == Low31(v)
        e   == m \div 8388608
        f   == m % 8388608
        nan == 31744 + (f \div 8192)
        sub == (8388608 + f) \div (2 ^ (113 - e))
        rs  == IF (sub % 16384 # 4096) \/ (f % 2048 # 0) THEN sub + 4096 ELSE sub
        rn  == IF f % 16384 # 4096 THEN f + 4096 ELSE f
    IN  sgn +
        (CASE e = 255 /\ f = 0 -> 31744
           [] e = 255 /\ f # 0 -> IF nan = 31744 THEN 31745 ELSE nan
           [] e >= 143 /\ e < 255 -> 31744
           [] e < 102 -> 0
           [] e >= 102 /\ e <= 112 -> rs \div 8192
           [] OTHER -> (e - 112) * 1024 + (rn \div 8192))

float16_tobytes(v) ==
    LET h == float16_bits(v) IN << h % 256, h \div 256 >>


(***************************************************************************)
(* Inputs: schemas, source element types, input files.                     *)
(***************************************************************************)
\* categorical_feature_sizes: 100000 = 1 * 65536 + 34464; 2147483647 =
\* 32767 * 65536 + 65535; 2147483648 = 32768 * 65536
Schemas ==
    { << >>,
      << Big(0, 100) >>,
      << Big(0, 10), Big(1, 34464) >>,
      << Big(0, 30000), Big(0, 100) >>,
      << Big(0, 100), Big(INT32_HI, INT32_LO) >>,
      << Big(32768, 0), Big(0, 100) >> }

\* source_data_type, looked up in np.__dict__ at line 47
SourceTypes == {"int16", "int32", "int64"}

\* 32-bit patterns of the floats 1.5, -2.25, 0.0 and 73000.0
FloatSlots == << 1069547520, -1072693248, 0, 1200526336 >>

LabelSlots == << 256, 0 >>

CatSlots == << << 5, 70000, 100 >>, << 200, -1, 30000 >> >>

\* the slots of a sample record of pattern j (1 or 2) with ncat categoricals
RecordSlots(j, ncat) ==
    << LabelSlots[j] >>
    \o [f \in 1..NumIntNames |-> FloatSlots[((f + j) % 4) + 1]]
    \o [k \in 1..ncat |-> CatSlots[j][((k - 1) % 3) + 1]]

RECURSIVE SlotsToBytes(_)
SlotsToBytes(slots) ==
    IF slots = << >> THEN << >>
    ELSE int32_tobytes(Head(slots)) \o SlotsToBytes(Tail(slots))

RECURSIVE RecordsToBytes(_, _)
RecordsToBytes(pats, ncat) ==
    IF pats = << >> THEN << >>
    ELSE SlotsToBytes(RecordSlots(Head(pats), ncat)) \o RecordsToBytes(Tail(pats), ncat)

Patterns(n) == [1..n -> {1, 2}]

\* trailing bytes after the last whole record
TailLens == {0, 1, 4}

\* input files: n records of 32-bit slots followed by t stray bytes
InputFiles(ncat, maxn) ==
    { RecordsToBytes(pats, ncat) \o [b \in 1..t |-> 171] :
        pats \in UNION { Patterns(n) : n \in 0..maxn }, t \in TailLens }

(***************************************************************************)
(* The file system of the output directories.                              *)
(***************************************************************************)
Partitions == << "test", "train", "validation" >>

Dirs == {"out", "test", "train", "validation"}

\* f"cat_{i}.bin", line 70
CatNames == << "cat_0.bin", "cat_1.bin" >>
cat_name(i) == CatNames[i + 1]

FileNames == {"numerical.bin", "label.bin"} \cup { CatNames[i] : i \in 1..Len(CatNames) }

StreamNames == {"input"} \cup FileNames

Absent == [exists |-> FALSE, data |-> << >>]
Created == [exists |-> TRUE, data |-> << >>]
Stale == [exists |-> TRUE, data |-> << 7, 7, 7 >>]

InitialDisk(pre) == [d \in Dirs |-> [n \in FileNames |-> IF pre THEN Stale ELSE Absent]]

VARIABLES
    entry,                      \* the function the run enters
    pc,                         \* position in the code
    part,                       \* split_dataset: calls of split_binary_file made
    invoked,                    \* split_dataset: output directories of those calls
    binary_file,                \* contents of binary_file_path
    output_dir,
    categorical_feature_sizes,
    batch_size,
    source_data_type,
    record_width,
    bytes_per_entry,
    total_size,
    batches_num,
    cat_feature_types,
    file_streams,               \* the list of line 57
    stream_state,               \* each stream: "unopened", "open" or "closed"
    input_pos,                  \* read position of input_data_f
    batch_no,                   \* iterations of the loop of line 74 completed
    batch_data,                 \* the grid of line 78: rows of record_width slots
    open_i,                     \* i of the loop of line 69
    cat_idx,                    \* cat_idx of the loop of line 89
    close_idx,                  \* position of the loop of line 95
    disk,                       \* directory -> file name -> file
    preexisting,                \* whether the output files existed before the run
    error,                      \* the exception in flight or raised
    reads,                      \* calls of input_data_f.read made by the current call
    last_read,                  \* bytes returned by the last read
    size,                       \* get_categorical_feature_type: its argument
    ret                         \* get_categorical_feature_type: its outcome

vars == << entry, pc, part, invoked, binary_file, output_dir,
           categorical_feature_sizes, batch_size, source_data_type,
           record_width, bytes_per_entry, total_size, batches_num,
           cat_feature_types, file_streams, stream_state, input_pos,
           batch_no, batch_data, open_i, cat_idx, close_idx, disk,
           preexisting, error, reads, last_read, size, ret >>

args == << entry, categorical_feature_sizes, batch_size, source_data_type,
           preexisting, size, ret >>

caller == << part, invoked, binary_file, output_dir >>

geometry == << record_width, bytes_per_entry, total_size, batches_num >>

K == Len(categorical_feature_sizes)

\* the locals of split_binary_file before its first statement
FreshLocals ==
    /\ record_width = 0
    /\ bytes_per_entry = 0
    /\ total_size = 0
    /\ batches_num = 0
    /\ cat_feature_types = << >>
    /\ file_streams = << >>
    /\ stream_state = [s \in StreamNames |-> "unopened"]
    /\ input_pos = 0
    /\ batch_no = 0
    /\ batch_data = << >>
    /\ open_i = 0
    /\ cat_idx = 0
    /\ close_idx = 1
    /\ error = "none"
    /\ reads = 0
    /\ last_read = 0

FreshLocalsNext ==
    /\ record_width' = 0
    /\ bytes_per_entry' = 0
    /\ total_size' = 0
    /\ batches_num' = 0
    /\ cat_feature_types' = << >>
    /\ file_streams' = << >>
    /\ stream_state' = [s \in StreamNames |-> "unopened"]
    /\ input_pos' = 0
    /\ batch_no' = 0
    /\ batch_data' = << >>
    /\ open_i' = 0
    /\ cat_idx' = 0
    /\ close_idx' = 1
    /\ error' = "none"
    /\ reads' = 0
    /\ last_read' = 0

\* a direct call split_binary_file(binary_file_path, output_dir,
\* categorical_feature_sizes, batch_size, source_data_type)
Init ==
    /\ entry = "split_binary_file"
    /\ pc = "geometry"
    /\ part = 0
    /\ invoked = << >>
    /\ categorical_feature_sizes \in Schemas
    /\ binary_file \in InputFiles(K, MaxRecords)
    /\ output_dir = "out"
    /\ batch_size \in 1..MaxBatch
    /\ source_data_type \in SourceTypes
    /\ preexisting \in BOOLEAN
    /\ disk = InitialDisk(preexisting)
    /\ FreshLocals
    /\ size = Big(0, 0)
    /\ ret = "none"

\* split_dataset(dataset_dir, output_dir, batch_size), lines 99-111, with
\* NUM_EMBEDDINGS_PER_FEATURE one of the schemas
InitDataset ==
    /\ entry = "split_dataset"
    /\ pc = "split_dataset"
    /\ part = 0
    /\ invoked = << >>
    /\ categorical_feature_sizes \in Schemas
    /\ binary_file = << >>
    /\ output_dir = "none"
    /\ batch_size \in 1..MaxBatch
    /\ source_data_type = "int32"
    /\ preexisting \in BOOLEAN
    /\ disk = InitialDisk(preexisting)
    /\ FreshLocals
    /\ size = Big(0, 0)
    /\ ret = "none"


(***************************************************************************)
(* split_binary_file, lines 37-96.                                         *)
(***************************************************************************)
CeilDiv(a, b) == (a + b - 1) \div b

\* a mutant of num_batches: the record count is not floored first
num_batches_unfloored(total, per_entry, batch) == CeilDiv(total, per_entry * batch)

\* line 51: int(math.ceil((total_size // bytes_per_entry) / batch_size))
num_batches(total, per_entry, batch) == CeilDiv(total \div per_entry, batch)

\* the exception of the try block reaches the finally clause of line 94
ToFinally(exc) ==
    /\ error' = exc
    /\ close_idx' = 1
    /\ pc' = "finally"

\* lines 44-51; os.path.getsize raises OSError for a missing input file
Geometry ==
    /\ pc = "geometry"
    /\ \/ /\ record_width' = 1 + NumIntNames + K
          /\ bytes_per_entry' = record_width' * itemsize(source_data_type)
          /\ total_size' = Len(binary_file)
          /\ batches_num' = num_batches(total_size', bytes_per_entry', batch_size)
          /\ pc' = "widths"
          /\ UNCHANGED error
       \/ /\ error' = "OSError"
          /\ pc' = "raised"
          /\ UNCHANGED geometry
    /\ UNCHANGED << args, caller, cat_feature_types, file_streams, stream_state,
                    input_pos, batch_no, batch_data, open_i, cat_idx,
                    close_idx, disk, reads, last_read >>

Rejected(ts) == \E k \in 1..Len(ts) : ts[k] = "RuntimeError"

\* a mutant of SelectWidths: the widths are selected only after the output
\* streams were opened, so a rejected bound leaves the files created
SelectWidths_after_open ==
    /\ pc = "widths"
    /\ cat_feature_types' =
           [k \in 1..K |-> get_categorical_feature_type(categorical_feature_sizes[k])]
    /\ IF Rejected(cat_feature_types')
       THEN /\ error' = "RuntimeError"
            /\ pc' = "raised"
            /\ disk' = [disk EXCEPT ![output_dir] =
                          [n \in FileNames |->
                              IF n \in {"numerical.bin", "label.bin"}
                                        \cup { cat_name(i) : i \in 0..(K - 1) }
                              THEN Created ELSE @[n]]]
       ELSE /\ pc' = "open_input"
            /\ UNCHANGED << error, disk >>
    /\ UNCHANGED << args, caller, geometry, file_streams, stream_state,
                    input_pos, batch_no, batch_data, open_i, cat_idx,
                    close_idx, reads, last_read >>

\* lines 53-55: the list comprehension, outside the try block
SelectWidths ==
    /\ pc = "widths"
    /\ cat_feature_types' =
           [k \in 1..K |-> get_categorical_feature_type(categorical_feature_sizes[k])]
    /\ IF Rejected(cat_feature_types')
       THEN /\ error' = "RuntimeError"
            /\ pc' = "raised"
       ELSE /\ pc' = "open_input"
            /\ UNCHANGED error
    /\ UNCHANGED << args, caller, geometry, file_streams, stream_state,
                    input_pos, batch_no, batch_data, open_i, cat_idx,
                    close_idx, disk, reads, last_read >>

\* open(path, "wb+") followed by file_streams.append: the file is created or
\* truncated
OpenOutput(name) ==
    /\ disk' = [disk EXCEPT ![output_dir][name] = Created]
    /\ stream_state' = [stream_state EXCEPT ![name] = "open"]
    /\ file_streams' = Append(file_streams, name)

\* lines 59-60
OpenInput ==
    /\ pc = "open_input"
    /\ \/ /\ stream_state' = [stream_state EXCEPT !["input"] = "open"]
          /\ file_streams' = Append(file_streams, "input")
          /\ pc' = "open_numerical"
          /\ UNCHANGED << error, close_idx >>
       \/ /\ ToFinally("OSError")
          /\ UNCHANGED << stream_state, file_streams >>
    /\ UNCHANGED << args, caller, geometry, cat_feature_types, input_pos,
                    batch_no, batch_data, open_i, cat_idx, disk, reads,
                    last_read >>

\* lines 62-63
OpenNumerical ==
    /\ pc = "open_numerical"
    /\ \/ /\ OpenOutput("numerical.bin")
          /\ pc' = "open_label"
          /\ UNCHANGED << error, close_idx >>
       \/ /\ ToFinally("OSError")
          /\ UNCHANGED << stream_state, file_streams, disk >>
    /\ UNCHANGED << args, caller, geometry, cat_feature_types, input_pos,
                    batch_no, batch_data, open_i, cat_idx, reads, last_read >>

\* lines 65-66 and 68
OpenLabel ==
    /\ pc = "open_label"
    /\ \/ /\ OpenOutput("label.bin")
          /\ pc' = IF K = 0 THEN "loop" ELSE "open_cat"
          /\ UNCHANGED << error, close_idx >>
       \/ /\ ToFinally("OSError")
          /\ UNCHANGED << stream_state, file_streams, disk >>
    /\ UNCHANGED << args, caller, geometry, cat_feature_types, input_pos,
                    batch_no, batch_data, open_i, cat_idx, reads, last_read >>

\* lines 69-72: one iteration
OpenCat ==
    /\ pc = "open_cat"
    /\ open_i < K
    /\ \/ /\ OpenOutput(cat_name(open_i))
          /\ open_i' = open_i + 1
          /\ pc' = IF open_i' = K THEN "loop" ELSE "open_cat"
          /\ UNCHANGED << error, close_idx >>
       \/ /\ ToFinally("OSError")
          /\ UNCHANGED << stream_state, file_streams, disk, open_i >>
    /\ UNCHANGED << args, caller, geometry, cat_feature_types, input_pos,
                    batch_no, batch_data, cat_idx, reads, last_read >>

Min(a, b) == IF a < b THEN a ELSE b

\* input_data_f.read(n): the bytes from the read position, fewer than n at
\* the end of the file
read(n) == SubSeq(binary_file, input_pos + 1, Min(input_pos + n, Len(binary_file)))

\* np.frombuffer(buf, dtype=np.int32).reshape(-1, record_width), lines 75-78
frombuffer_reshape(buf) ==
    [r \in 1..((Len(buf) \div 4) \div record_width) |->
        [c \in 1..record_width |->
            int32_frombytes(buf, 4 * ((r - 1) * record_width + (c - 1)))]]

\* lines 74-78: one more iteration of the loop; frombuffer raises ValueError
\* when the buffer is no multiple of 4 bytes, reshape when the element
\* count is no multiple of record_width
ReadBatch ==
    /\ pc = "loop"
    /\ batch_no < batches_num
    /\ \/ LET buf == read(bytes_per_entry * batch_size)
          IN  /\ reads' = reads + 1
              /\ last_read' = Len(buf)
              /\ input_pos' = input_pos + Len(buf)
              /\ IF Len(buf) % 4 # 0 \/ (Len(buf) \div 4) % record_width # 0
                 THEN /\ ToFinally("ValueError")
                      /\ UNCHANGED batch_data
                 ELSE /\ batch_data' = frombuffer_reshape(buf)
                      /\ pc' = "write_numerical"
                      /\ UNCHANGED << error, close_idx >>
       \/ /\ ToFinally("OSError")
          /\ UNCHANGED << reads, last_read, input_pos, batch_data >>
    /\ UNCHANGED << args, caller, geometry, cat_feature_types, file_streams,
                    stream_state, batch_no, open_i, cat_idx, disk >>

\* line 74: range(batches_num) is exhausted
LoopDone ==
    /\ pc = "loop"
    /\ batch_no = batches_num
    /\ pc' = "finally"
    /\ close_idx' = 1
    /\ UNCHANGED << args, caller, geometry, cat_feature_types, file_streams,
                    stream_state, input_pos, batch_no, batch_data, open_i,
                    cat_idx, disk, error, reads, last_read >>

RECURSIVE Concat(_)
Concat(seqs) == IF seqs = << >> THEN << >> ELSE Head(seqs) \o Concat(Tail(seqs))

\* stream.write(data) on an output stream
write(name, data) ==
    disk' = [disk EXCEPT ![output_dir][name].data = @ \o data]

\* batch_data[:, 1 : 1 + len(DEFAULT_INT_NAMES)].view(float32)
\*     .astype(float16).tobytes(), lines 80-83
numerical_bytes(grid) ==
    Concat([r \in 1..Len(grid) |->
              Concat([f \in 1..NumIntNames |-> float16_tobytes(grid[r][1 + f])])])

\* a mutant of label_bytes: astype(int8) in place of astype(bool)
label_bytes_int8(grid) ==
    Concat([r \in 1..Len(grid) |-> int_tobytes(astype_int(grid[r][1], "int8"), "int8")])

\* batch_data[:, 0].astype(np.bool).tobytes(), lines 85-86
label_bytes(grid) ==
    Concat([r \in 1..Len(grid) |-> bool_tobytes(grid[r][1])])

\* batch_data[:, idx + off : idx + off + 1].astype(type).tobytes(), lines 88-93
cat_bytes(grid, idx, t) ==
    Concat([r \in 1..Len(grid) |->
              int_tobytes(astype_int(grid[r][idx + NumIntNames + 1 + 1], t), t)])

\* lines 80-83
WriteNumerical ==
    /\ pc = "write_numerical"
    /\ \/ /\ write("numerical.bin", numerical_bytes(batch_data))
          /\ pc' = "write_label"
          /\ UNCHANGED << error, close_idx >>
       \/ /\ ToFinally("OSError")
          /\ UNCHANGED disk
    /\ UNCHANGED << args, caller, geometry, cat_feature_types, file_streams,
                    stream_state, input_pos, batch_no, batch_data, open_i,
                    cat_idx, reads, last_read >>

\* lines 85-89
WriteLabel ==
    /\ pc = "write_label"
    /\ \/ /\ write("label.bin", label_bytes(batch_data))
          /\ cat_idx' = 0
          /\ IF K = 0
             THEN /\ batch_no' = batch_no + 1
                  /\ pc' = "loop"
             ELSE /\ pc' = "write_cat"
                  /\ UNCHANGED batch_no
          /\ UNCHANGED << error, close_idx >>
       \/ /\ ToFinally("OSError")
          /\ UNCHANGED << disk, cat_idx, batch_no >>
    /\ UNCHANGED << args, caller, geometry, cat_feature_types, file_streams,
                    stream_state, input_pos, batch_data, open_i, reads,
                    last_read >>

\* lines 89-93: one iteration
WriteCat ==
    /\ pc = "write_cat"
    /\ cat_idx < K
    /\ \/ /\ write(cat_name(cat_idx),
                   cat_bytes(batch_data, cat_idx, cat_feature_types[cat_idx + 1]))
          /\ cat_idx' = cat_idx + 1
          /\ IF cat_idx' = K
             THEN /\ batch_no' = batch_no + 1
                  /\ pc' = "loop"
             ELSE /\ pc' = "write_cat"
                  /\ UNCHANGED batch_no
          /\ UNCHANGED << error, close_idx >>
       \/ /\ ToFinally("OSError")
          /\ UNCHANGED << disk, cat_idx, batch_no >>
    /\ UNCHANGED << args, caller, geometry, cat_feature_types, file_streams,
                    stream_state, input_pos, batch_data, open_i, reads,
                    last_read >>

\* lines 95-96: one iteration.  close() of an output stream that was written
\* to flushes the written bytes and may raise OSError (a full disk); the
\* stream itself is closed all the same, and the exception leaves the loop
CloseStream ==
    /\ pc = "finally"
    /\ close_idx <= Len(file_streams)
    /\ stream_state' = [stream_state EXCEPT ![file_streams[close_idx]] = "closed"]
    /\ \/ /\ close_idx' = close_idx + 1
          /\ UNCHANGED << pc, error >>
       \/ /\ file_streams[close_idx] # "input"
          /\ disk[output_dir][file_streams[close_idx]].data # << >>
          /\ error' = "OSError"
          /\ pc' = "raised"
          /\ UNCHANGED close_idx
    /\ UNCHANGED << args, caller, geometry, cat_feature_types, file_streams,
                    input_pos, batch_no, batch_data, open_i, cat_idx, disk,
                    reads, last_read >>

\* the finally clause is done: the call returns, or the exception of the
\* try block propagates
FinallyExit ==
    /\ pc = "finally"
    /\ close_idx > Len(file_streams)
    /\ pc' = IF error = "none" THEN "returned" ELSE "raised"
    /\ UNCHANGED << args, caller, geometry, cat_feature_types, file_streams,
                    stream_state, input_pos, batch_no, batch_data, open_i,
                    cat_idx, close_idx, disk, error, reads, last_read >>

SplitBinaryFile ==
    \/ Geometry
    \/ SelectWidths
    \/ OpenInput
    \/ OpenNumerical
    \/ OpenLabel
    \/ OpenCat
    \/ ReadBatch
    \/ LoopDone
    \/ WriteNumerical
    \/ WriteLabel
    \/ WriteCat
    \/ CloseStream
    \/ FinallyExit

Next == SplitBinaryFile

Spec == Init /\ [][Next]_vars

(***************************************************************************)
(* split_dataset, lines 99-125.                                            *)
(***************************************************************************)
\* a mutant of CallSplitBinaryFile: a failed partition does not stop the run
CallSplitBinaryFile_after_failure ==
    /\ entry = "split_dataset"
    /\ pc \in {"split_dataset", "returned", "raised"}
    /\ part < Len(Partitions)
    /\ part' = part + 1
    /\ output_dir' = Partitions[part']
    /\ invoked' = Append(invoked, output_dir')
    /\ binary_file' \in InputFiles(K, MaxDatasetRecords)
    /\ FreshLocalsNext
    /\ pc' = "geometry"
    /\ UNCHANGED << args, disk >>

\* lines 113-125: the next call of split_binary_file, made when the
\* directories exist (lines 108-111) or the previous call returned; an
\* exception of a call propagates out of split_dataset
CallSplitBinaryFile ==
    /\ entry = "split_dataset"
    /\ pc \in {"split_dataset", "returned"}
    /\ part < Len(Partitions)
    /\ part' = part + 1
    /\ output_dir' = Partitions[part']
    /\ invoked' = Append(invoked, output_dir')
    /\ binary_file' \in InputFiles(K, MaxDatasetRecords)
    /\ FreshLocalsNext
    /\ pc' = "geometry"
    /\ UNCHANGED << args, disk >>

NextDataset == CallSplitBinaryFile \/ SplitBinaryFile

SpecDataset == InitDataset /\ [][NextDataset]_vars

(***************************************************************************)
(* get_categorical_feature_type on its own, lines 23-34.                   *)
(***************************************************************************)
\* 3000000 = 45 * 65536 + 50880
Sizes ==
    { Big(hi, lo) : hi \in {0, 1, 45, INT32_HI, 32768, 70000},
                    lo \in {0, 100, 126, INT8_MAX, 128, 30000, 32766, INT16_MAX,
                            32768, 50880, 65534, INT32_LO} }

InitWidth ==
    /\ entry = "get_categorical_feature_type"
    /\ pc = "call"
    /\ part = 0
    /\ invoked = << >>
    /\ categorical_feature_sizes = << >>
    /\ binary_file = << >>
    /\ output_dir = "none"
    /\ batch_size = 1
    /\ source_data_type = "int32"
    /\ preexisting = FALSE
    /\ disk = InitialDisk(preexisting)
    /\ FreshLocals
    /\ size \in Sizes
    /\ ret = "none"

\* one call get_categorical_feature_type(size)
CallGetType ==
    /\ entry = "get_categorical_feature_type"
    /\ pc = "call"
    /\ ret' = get_categorical_feature_type(size)
    /\ pc' = IF ret' = "RuntimeError" THEN "raised" ELSE "returned"
    /\ error' = IF ret' = "RuntimeError" THEN "RuntimeError" ELSE "none"
    /\ UNCHANGED << entry, categorical_feature_sizes, batch_size, source_data_type,
                    preexisting, size, caller, geometry, cat_feature_types,
                    file_streams, stream_state, input_pos, batch_no, batch_data,
                    open_i, cat_idx, close_idx, disk, reads, last_read >>

NextWidth == CallGetType

SpecWidth == InitWidth /\ [][NextWidth]_vars


(***************************************************************************)
(* Vocabulary of the properties, stated without the operators of the code. *)
(***************************************************************************)
INT32_MAX == Big(INT32_HI, INT32_LO)

IntTypes == {"int8", "int16", "int32"}

\* type t can hold the bound c: its maximum strictly exceeds c
Exceeds(t, c) == Less(c, iinfo_max(t))

Representable(c) == \E t \in IntTypes : Exceeds(t, c)

\* the smallest type whose maximum strictly exceeds c
SmallestType(c) ==
    CHOOSE t \in IntTypes :
        /\ Exceeds(t, c)
        /\ \A u \in IntTypes : Exceeds(u, c) => itemsize(t) <= itemsize(u)

SchemaValid == \A k \in 1..K : Representable(categorical_feature_sizes[k])

Exited == pc \in {"returned", "raised"}

\* the files the call writes
OutputNames == {"numerical.bin", "label.bin"} \cup { cat_name(i) : i \in 0..(K - 1) }

OutFile(n) == disk[output_dir][n]

\* bytes of one record for the default 32-bit source element type
RecordBytes == 4 * (1 + NumIntNames + K)

\* whole records in the input file
NumRecords == Len(binary_file) \div RecordBytes

\* slot j (0-based) of input record i (0-based)
InputSlot(i, j) == int32_frombytes(binary_file, i * RecordBytes + 4 * j)

\* the signed little-endian value of row i (0-based) of w bytes each
RowValue(data, i, w) ==
    CASE w = 1 -> LET b == data[i + 1] IN IF b >= 128 THEN b - 256 ELSE b
      [] w = 2 -> LET u == data[2 * i + 1] + 256 * data[2 * i + 2]
                  IN  IF u >= 32768 THEN u - 65536 ELSE u
      [] w = 4 -> int32_frombytes(data, 4 * i)

\* d is v narrowed to w bytes: in range and congruent to v
IsNarrowed(d, v, w) ==
    CASE w = 1 -> d \in -128..127 /\ (d - v) % 256 = 0
      [] w = 2 -> d \in -32768..32767 /\ (d - v) % 65536 = 0
      [] w = 4 -> d = v

\* 0 <= v <= c for a 32-bit v and a bound c
WithinBound(v, c) == v >= 0 /\ ~Less(c, Big(v \div 65536, v % 65536))

\* rows of each output file, by the widths of section 6 of the specification
RowsOf(n) ==
    IF n = "label.bin" THEN Len(OutFile(n).data)
    ELSE IF n = "numerical.bin" THEN Len(OutFile(n).data) \div (2 * NumIntNames)
    ELSE LET k == CHOOSE i \in 0..(K - 1) : cat_name(i) = n
         IN  Len(OutFile(n).data) \div itemsize(SmallestType(categorical_feature_sizes[k + 1]))

(***************************************************************************)
(* C1: for the default source element type, every valid schema, every      *)
(* batch size and every input of N whole records plus r < bytesPerRecord   *)
(* stray bytes, a call that meets no I/O failure returns without error and *)
(* every output file holds exactly N rows.                                 *)
(***************************************************************************)
C1_ExactlyNRows ==
    (source_data_type = "int32" /\ SchemaValid /\ Exited /\ error # "OSError")
        => /\ pc = "returned"
           /\ \A n \in OutputNames : OutFile(n).exists /\ RowsOf(n) = NumRecords

\* the bytes one batch appends to output file n
BatchBytes(n, grid) ==
    IF n = "label.bin" THEN label_bytes(grid)
    ELSE IF n = "numerical.bin" THEN numerical_bytes(grid)
    ELSE LET k == CHOOSE i \in 0..(K - 1) : cat_name(i) = n
         IN  cat_bytes(grid, k, cat_feature_types[k + 1])

\* the loop of lines 74-93 run to its end with batch size b
RECURSIVE RunBatches(_, _, _, _)
RunBatches(b, todo, pos, out) ==
    IF todo = 0 THEN [result |-> "returned", files |-> out]
    ELSE LET buf == SubSeq(binary_file, pos + 1,
                           Min(pos + bytes_per_entry * b, Len(binary_file)))
         IN  IF Len(buf) % 4 # 0 \/ (Len(buf) \div 4) % record_width # 0
             THEN [result |-> "raised", files |-> out]
             ELSE RunBatches(b, todo - 1, pos + Len(buf),
                             [n \in OutputNames |->
                                 out[n] \o BatchBytes(n, frombuffer_reshape(buf))])

SplitWith(b) ==
    RunBatches(b, num_batches(total_size, bytes_per_entry, b), 0,
               [n \in OutputNames |-> << >>])

(***************************************************************************)
(* C2: batch-size invariance: the outcome and the bytes of the output      *)
(* files of a call are those of the same call made with any other batch    *)
(* size.                                                                   *)
(***************************************************************************)
C2_BatchSizeInvariance ==
    (source_data_type = "int32" /\ SchemaValid /\ Exited /\ error # "OSError")
        => \A b \in 1..MaxBatch :
              /\ SplitWith(b).result = pc
              /\ \A n \in OutputNames : SplitWith(b).files[n] = OutFile(n).data

(***************************************************************************)
(* C3: after a successful split with the default source element type, row  *)
(* i of label.bin is 1 exactly when slot 0 of input record i is nonzero    *)
(* and row i of cat_k.bin is slot 1+numFields+k of record i narrowed to    *)
(* the smallest width for feature k (the slot value itself when it lies    *)
(* between 0 and the bound); every file has exactly one row per record.    *)
(***************************************************************************)
C3_OrderAndFidelity ==
    (source_data_type = "int32" /\ pc = "returned")
        => /\ Len(OutFile("label.bin").data) = NumRecords
           /\ \A i \in 0..(NumRecords - 1) :
                 OutFile("label.bin").data[i + 1] = (IF InputSlot(i, 0) # 0 THEN 1 ELSE 0)
           /\ \A k \in 0..(K - 1) :
                 LET c == categorical_feature_sizes[k + 1]
                     w == itemsize(SmallestType(c))
                     data == OutFile(cat_name(k)).data
                 IN  /\ Len(data) = w * NumRecords
                     /\ \A i \in 0..(NumRecords - 1) :
                           LET v == InputSlot(i, 1 + NumIntNames + k)
                               d == RowValue(data, i, w)
                           IN  /\ IsNarrowed(d, v, w)
                               /\ WithinBound(v, c) => d = v

\* three records split in two batches, a label slot of 256, a categorical
\* value that fits and one that wraps
C3_Witness ==
    /\ source_data_type = "int32"
    /\ pc = "returned"
    /\ batch_size = 2
    /\ batch_no = 2
    /\ NumRecords = 3
    /\ categorical_feature_sizes = << Big(0, 30000), Big(0, 100) >>
    /\ InputSlot(0, 0) = 256
    /\ InputSlot(1, 0) = 0
    /\ OutFile("label.bin").data = << 1, 0, 1 >>
    /\ RowValue(OutFile("cat_0.bin").data, 0, 2) = 5
    /\ InputSlot(2, 1 + NumIntNames + 1) = 70000
    /\ RowValue(OutFile("cat_1.bin").data, 2, 1) = 112

(***************************************************************************)
(* C4: for every bound c that some supported type can hold,                *)
(* get_categorical_feature_type returns the smallest of int8, int16 and    *)
(* int32 whose maximum strictly exceeds c; 100 and 126 give int8, 127 and  *)
(* 30000 give int16, 32767 and 3000000 give int32.                         *)
(***************************************************************************)
C4_SmallestWidth ==
    (entry = "get_categorical_feature_type" /\ pc # "call")
        => /\ Representable(size) => ret = SmallestType(size)
           /\ size \in {Big(0, 100), Big(0, 126)} => ret = "int8"
           /\ size \in {Big(0, 127), Big(0, 30000)} => ret = "int16"
           /\ size \in {Big(0, 32767), Big(45, 50880)} => ret = "int32"

C4_Witness ==
    /\ entry = "get_categorical_feature_type"
    /\ pc = "returned"
    /\ size = Big(0, 127)
    /\ ret = "int16"

(***************************************************************************)
(* C5 as stated: the RuntimeError is raised exactly when the bound is      *)
(* greater than 2147483647.                                                *)
(***************************************************************************)
C5_RaisedIffAboveInt32Max ==
    (entry = "get_categorical_feature_type" /\ pc # "call")
        => (ret = "RuntimeError" <=> Less(INT32_MAX, size))

(***************************************************************************)
(* C5 amended: the RuntimeError is raised exactly when the bound is        *)
(* greater than or equal to 2147483647.                                    *)
(***************************************************************************)
C5_RaisedIffAtLeastInt32Max ==
    (entry = "get_categorical_feature_type" /\ pc # "call")
        => /\ (ret = "RuntimeError" <=> ~Less(size, INT32_MAX))
           /\ (pc = "raised" <=> ret = "RuntimeError")

C5_Witness ==
    /\ entry = "get_categorical_feature_type"
    /\ pc = "raised"
    /\ size = INT32_MAX
    /\ ret = "RuntimeError"

(***************************************************************************)
(* C6: when some element of categorical_feature_sizes is rejected by width *)
(* selection, the call never opens a stream, ends by raising, and every    *)
(* file of the output directory stays as it was before the call.           *)
(***************************************************************************)
C6_RejectedSchemaOpensNothing ==
    ~SchemaValid
        => /\ file_streams = << >>
           /\ \A s \in StreamNames : stream_state[s] = "unopened"
           /\ disk = InitialDisk(preexisting)
           /\ pc \in {"geometry", "widths", "raised"}

\* the second element is the rejected one and the files existed before
C6_Witness ==
    /\ pc = "raised"
    /\ error = "RuntimeError"
    /\ preexisting
    /\ Len(cat_feature_types) = 2
    /\ cat_feature_types[1] = "int8"
    /\ cat_feature_types[2] = "RuntimeError"
    /\ OutFile("label.bin") = Stale

(***************************************************************************)
(* C7: whenever split_binary_file has returned or raised, no stream that   *)
(* the call opened is still open.                                          *)
(***************************************************************************)
C7_NoStreamLeftOpen ==
    Exited => \A s \in StreamNames : stream_state[s] # "open"

\* one step of a split_dataset run
C8_Step ==
    /\ invoked' # invoked
          => /\ pc \in {"split_dataset", "returned"}
             /\ error = "none"
             /\ Len(invoked) < Len(Partitions)
             /\ invoked' = Append(invoked, Partitions[Len(invoked) + 1])
    /\ pc = "raised" => UNCHANGED vars
    /\ \A p \in 1..Len(Partitions) :
          p > Len(invoked') => disk'[Partitions[p]] = InitialDisk(preexisting)[Partitions[p]]

(***************************************************************************)
(* C8: split_dataset calls split_binary_file for test, train, validation   *)
(* in that order, each call only after the previous one returned; once a   *)
(* call has raised nothing more happens; the directories of the partitions *)
(* not yet called hold no file written by the run.                         *)
(***************************************************************************)
C8_PartitionsInOrderAbortOnFailure == [][C8_Step]_vars

\* test was split, train failed, validation was never started
C8_Witness ==
    /\ entry = "split_dataset"
    /\ pc = "raised"
    /\ invoked = << "test", "train" >>
    /\ disk["test"]["label.bin"].data = << 1 >>
    /\ disk["validation"] = InitialDisk(preexisting)["validation"]

\* the input holds less than one record of the call's geometry
ShortInput ==
    Len(binary_file) < (1 + NumIntNames + K) * itemsize(source_data_type)

(***************************************************************************)
(* C9: for an input shorter than one record and a valid schema, a call     *)
(* that meets no I/O failure never reads the input, runs no batch, returns *)
(* without error and leaves every output file existing and empty.          *)
(***************************************************************************)
C9_ShortInputEmptyOutputs ==
    (entry = "split_binary_file" /\ ShortInput /\ SchemaValid)
        => /\ reads = 0
           /\ batch_no = 0
           /\ (Exited /\ error # "OSError")
                 => /\ pc = "returned"
                    /\ \A n \in OutputNames : OutFile(n) = Created

\* a file of stray bytes only, over output files that existed before
C9_Witness ==
    /\ ShortInput
    /\ Len(binary_file) > 0
    /\ pc = "returned"
    /\ preexisting
    /\ batch_size = 2
    /\ K = 2
    /\ OutFile("cat_1.bin") = Created

(***************************************************************************)
(* C10: for every source element type, the grid built from a batch has     *)
(* exactly bytesRead / bytesPerRecord rows.                                *)
(***************************************************************************)
C10_GridRowsAreRecordsRead ==
    pc = "write_numerical" => Len(batch_data) * bytes_per_entry = last_read

====
